---- MODULE Spec2Model ----
(***************************************************************************)
(* MarketView AI API (src/main.py): the health, diagnostics, list and      *)
(* ingest endpoints over a document store.                                 *)
(*                                                                         *)
(* Python str values are TLA+ strings, Python None is the sentinel None,   *)
(* a stored document is a function from field names to values whose        *)
(* domain is the set of keys the document has.  Non-ASCII literals of the  *)
(* source are written with their \u escapes.                               *)
(***************************************************************************)
EXTENDS Integers, Sequences, FiniteSets, TLC

VARIABLES db, env, store, request, response, calls

vars == <<db, env, store, request, response, calls>>

-----------------------------------------------------------------------------
(* Bounds of the model *)

\* ingest is enabled while the "news" collection holds fewer documents
MaxDocs == 2
\* longest "news" collection that exists before the process starts (InitStore)
MaxExternal == 2

(* Program constants *)

SummaryMax == 500
CollectionsMax == 10
ErrMax == 80
DefaultLimit == 20

-----------------------------------------------------------------------------
(* Python values *)

None == "<None>"

\* truth value of an Optional[str]: None and "" are falsy
Truthy(v) == v # None /\ v # ""

\* a or b
Or(a, b) == IF Truthy(a) THEN a ELSE b

Min(a, b) == IF a < b THEN a ELSE b

\* s[:n] for n >= 0
Slice(s, n) == SubSeq(s, 1, Min(n, Len(s)))

\* d.get(k, default)
Get(d, k, default) == IF k \in DOMAIN d THEN d[k] ELSE default

\* characters str.strip() removes
Whitespace == {" ", "\t", "\n", "\r", "\f"}

RECURSIVE lstrip(_)
lstrip(s) ==
    IF s # "" /\ SubSeq(s, 1, 1) \in Whitespace
    THEN lstrip(SubSeq(s, 2, Len(s)))
    ELSE s

RECURSIVE rstrip(_)
rstrip(s) ==
    IF s # "" /\ SubSeq(s, Len(s), Len(s)) \in Whitespace
    THEN rstrip(SubSeq(s, 1, Len(s) - 1))
    ELSE s

strip(s) == rstrip(lstrip(s))

\* str(ObjectId): object ids are numbered 1, 2, ... within a collection
ObjectIdStr(n) == "oid" \o ToString(n)

-----------------------------------------------------------------------------
(* Storage gateway (database module) *)

Collections == {"news", "archive"}

create_document_result(st, collection) == ObjectIdStr(Len(st[collection]) + 1)

create_document(st, collection, doc) ==
    [st EXCEPT ![collection] =
        Append(@, ("_id" :> (Len(st[collection]) + 1)) @@ doc)]

Matches(d, f) == \A k \in DOMAIN f : k \in DOMAIN d /\ d[k] = f[k]

get_documents(st, collection, f, limit) ==
    LET found == SelectSeq(st[collection], LAMBDA d : Matches(d, f))
    IN  SubSeq(found, 1, Min(limit, Len(found)))

-----------------------------------------------------------------------------
(* Schemas *)

\* RawArticle(**body): the required fields are present strings
RawArticleValid(body) ==
    \A k \in {"url", "source", "title"} : k \in DOMAIN body /\ body[k] # None

RawArticle(body) ==
    [url          |-> body["url"],
     source       |-> body["source"],
     title        |-> body["title"],
     content      |-> Get(body, "content", None),
     published_at |-> Get(body, "published_at", None),
     ticker       |-> Get(body, "ticker", None)]

\* NewsResponse(...): the str fields reject None
NewsResponseValid(r) ==
    /\ r.source # None
    /\ r.title_ko # None
    /\ r.summary_ko # None
    /\ r.sentiment # None

-----------------------------------------------------------------------------
(* Mapping *)

Placeholder == "\\uC694\\uC57D \\uC5C6\\uC74C"

\* variants of summary_ko: without [:500], without .strip()
summary_ko_untruncated(content) == Or(strip(Or(content, "")), Placeholder)

summary_ko_unstripped(content) == Or(Slice(Or(content, ""), SummaryMax), Placeholder)

summary_ko(content) == Or(Slice(strip(Or(content, "")), SummaryMax), Placeholder)

\* variant of NewsArticle: ticker not copied from the payload
NewsArticle_without_ticker(payload) ==
    [url          |-> payload.url,
     source       |-> payload.source,
     title_en     |-> None,
     title_ko     |-> payload.title,
     summary_ko   |-> summary_ko(payload.content),
     sentiment    |-> "neutral",
     published_at |-> payload.published_at,
     tags         |-> <<>>,
     ticker       |-> None]

NewsArticle(payload) ==
    [url          |-> payload.url,
     source       |-> payload.source,
     title_en     |-> None,
     title_ko     |-> payload.title,
     summary_ko   |-> summary_ko(payload.content),
     sentiment    |-> "neutral",
     published_at |-> payload.published_at,
     tags         |-> <<>>,
     ticker       |-> payload.ticker]

\* variant of NewsResponse: title_ko without the title_en fallback
NewsResponse_without_fallback(it) ==
    [id           |-> IF "_id" \in DOMAIN it THEN ObjectIdStr(it["_id"]) ELSE "None",
     source       |-> Get(it, "source", ""),
     title_ko     |-> Get(it, "title_ko", ""),
     summary_ko   |-> Get(it, "summary_ko", ""),
     sentiment    |-> Get(it, "sentiment", "neutral"),
     published_at |-> Get(it, "published_at", None),
     tags         |-> Get(it, "tags", <<>>),
     ticker       |-> Get(it, "ticker", None)]

NewsResponse(it) ==
    [id           |-> IF "_id" \in DOMAIN it THEN ObjectIdStr(it["_id"]) ELSE "None",
     source       |-> Get(it, "source", ""),
     title_ko     |-> Get(it, "title_ko", Get(it, "title_en", "")),
     summary_ko   |-> Get(it, "summary_ko", ""),
     sentiment    |-> Get(it, "sentiment", "neutral"),
     published_at |-> Get(it, "published_at", None),
     tags         |-> Get(it, "tags", <<>>),
     ticker       |-> Get(it, "ticker", None)]

\* variant of Filter: "is not None" instead of truthiness
Filter_not_none(sentiment, ticker) ==
    [k \in {x \in {"sentiment", "ticker"} :
                \/ x = "sentiment" /\ sentiment # None
                \/ x = "ticker" /\ ticker # None}
       |-> IF k = "sentiment" THEN sentiment ELSE ticker]

Filter(sentiment, ticker) ==
    [k \in {x \in {"sentiment", "ticker"} :
                \/ x = "sentiment" /\ Truthy(sentiment)
                \/ x = "ticker" /\ Truthy(ticker)}
       |-> IF k = "sentiment" THEN sentiment ELSE ticker]

-----------------------------------------------------------------------------
(* Inputs *)

A10 == "aaaaaaaaaa"
A100 == A10 \o A10 \o A10 \o A10 \o A10 \o A10 \o A10 \o A10 \o A10 \o A10
A499 == A100 \o A100 \o A100 \o A100 \o A10 \o A10 \o A10 \o A10 \o A10
            \o A10 \o A10 \o A10 \o A10 \o "aaaaaaaaa"
\* 502 characters once stripped
LongContent == " \t" \o "x" \o A499 \o "yz" \o "\n"

Contents == {None, "", " \t\n", "hello", "  hi there \n", LongContent}

Base == [url |-> "http://x", source |-> "S", title |-> "T"]

Bodies ==
    {Base @@ ("content" :> c) : c \in Contents \ {None}}
    \cup {Base,
          Base @@ [content |-> "hello", ticker |-> "AAPL",
                   published_at |-> "2024-05-01T09:00:00"],
          [source |-> "S", title |-> "T", content |-> "hello"],
          <<>>}

Limits == {-1, 0, 1, DefaultLimit}

Params == {<<None, None>>, <<"", None>>, <<"neutral", None>>,
           <<"positive", None>>, <<None, "AAPL">>, <<None, "">>,
           <<"neutral", "AAPL">>}

\* documents written to "news" by other processes
ExternalDocs ==
    {[source |-> "R", title_ko |-> "K", title_en |-> "E", summary_ko |-> "s",
      sentiment |-> "positive", published_at |-> None, tags |-> <<"ai">>,
      ticker |-> "AAPL"],
     [source |-> "R", title_en |-> "E", summary_ko |-> "s", ticker |-> None],
     [source |-> "R", title_en |-> None, summary_ko |-> "s",
      sentiment |-> "neutral"],
     [sentiment |-> "neutral", ticker |-> "AAPL"],
     [source |-> "R", title_ko |-> "K", summary_ko |-> "s",
      sentiment |-> "negative", tags |-> None],
     [source |-> "R", title_ko |-> "K", sentiment |-> "",
      tags |-> <<>>, ticker |-> ""]}

RECURSIVE Seqs(_, _)
Seqs(S, n) ==
    IF n = 0 THEN {<<>>}
    ELSE Seqs(S, n - 1) \cup
         {Append(s, x) : s \in {t \in Seqs(S, n - 1) : Len(t) = n - 1}, x \in S}

WithIds(s) ==
    IF s = <<>> THEN <<>> ELSE [i \in 1..Len(s) |-> ("_id" :> i) @@ s[i]]

Name11 == <<"news", "c2", "c3", "c4", "c5", "c6", "c7", "c8", "c9", "c10", "c11">>

\* what db.list_collection_names() does: returns names, or raises e
Listings ==
    {[ok |-> TRUE, names |-> n] : n \in {<<>>, <<"news">>, Name11}}
    \cup {[ok |-> FALSE, e |-> e] : e \in {"timeout", A100}}

Envs == {[DATABASE_URL |-> None, DATABASE_NAME |-> None],
         [DATABASE_URL |-> "mongodb://h", DATABASE_NAME |-> "mv"]}

-----------------------------------------------------------------------------
(* State *)

NoRequest == [op |-> "none"]
NoResponse == [status |-> 0]

Init ==
    /\ db \in {None, "db"}
    /\ env \in Envs
    /\ store = [c \in Collections |-> <<>>]
    /\ request = NoRequest
    /\ response = NoResponse
    /\ calls = <<>>

InitStore ==
    /\ db \in {None, "db"}
    /\ env \in Envs
    /\ \E s \in Seqs(ExternalDocs, MaxExternal) :
          store = [c \in Collections |-> IF c = "news" THEN WithIds(s) ELSE <<>>]
    /\ request = NoRequest
    /\ response = NoResponse
    /\ calls = <<>>

-----------------------------------------------------------------------------
(* Endpoints *)

read_root ==
    /\ request' = [op |-> "health"]
    /\ response' = [status |-> 200,
                    body |-> [message |-> "MarketView AI backend running"]]
    /\ calls' = <<>>
    /\ UNCHANGED <<db, env, store>>

\* variant of test_database_body: collections without [:10]
test_database_body_unsliced(listing) ==
    LET r0 == [backend |-> "\\u2705 Running",
               database |-> "\\u274c Not Available",
               database_url |-> None,
               database_name |-> None,
               connection_status |-> "Not Connected",
               collections |-> <<>>]
    IN  IF db # None
        THEN LET r1 == [r0 EXCEPT
                          !.database = "\\u2705 Available",
                          !.database_url =
                              IF Truthy(env.DATABASE_URL)
                              THEN "\\u2705 Set" ELSE "\\u274c Not Set",
                          !.database_name =
                              Or(env.DATABASE_NAME, "\\u274c Not Set"),
                          !.connection_status = "Connected"]
             IN  IF listing.ok
                 THEN [r1 EXCEPT
                          !.collections = listing.names,
                          !.database = "\\u2705 Connected & Working"]
                 ELSE [r1 EXCEPT
                          !.database = "\\u26a0\\ufe0f  Connected but Error: "
                                          \o Slice(listing.e, ErrMax)]
        ELSE [r0 EXCEPT !.database = "\\u26a0\\ufe0f  Available but not initialized"]

test_database_body(listing) ==
    LET r0 == [backend |-> "\\u2705 Running",
               database |-> "\\u274c Not Available",
               database_url |-> None,
               database_name |-> None,
               connection_status |-> "Not Connected",
               collections |-> <<>>]
    IN  IF db # None
        THEN LET r1 == [r0 EXCEPT
                          !.database = "\\u2705 Available",
                          !.database_url =
                              IF Truthy(env.DATABASE_URL)
                              THEN "\\u2705 Set" ELSE "\\u274c Not Set",
                          !.database_name =
                              Or(env.DATABASE_NAME, "\\u274c Not Set"),
                          !.connection_status = "Connected"]
             IN  IF listing.ok
                 THEN [r1 EXCEPT
                          !.collections = Slice(listing.names, CollectionsMax),
                          !.database = "\\u2705 Connected & Working"]
                 ELSE [r1 EXCEPT
                          !.database = "\\u26a0\\ufe0f  Connected but Error: "
                                          \o Slice(listing.e, ErrMax)]
        ELSE [r0 EXCEPT !.database = "\\u26a0\\ufe0f  Available but not initialized"]

test_database(listing) ==
    /\ request' = [op |-> "test", listing |-> listing]
    /\ response' = [status |-> 200, body |-> test_database_body(listing)]
    /\ calls' = <<>>
    /\ UNCHANGED <<db, env, store>>

\* variant of list_news: no "db is None" check; the gateway raises instead
list_news_unchecked(limit, sentiment, ticker, ok) ==
    /\ request' = [op |-> "list", limit |-> limit, sentiment |-> sentiment,
                   ticker |-> ticker]
    /\ LET f == Filter(sentiment, ticker)
           items == get_documents(store, "news", f, limit)
           results == IF items = <<>> THEN <<>>
                      ELSE [i \in 1..Len(items) |-> NewsResponse(items[i])]
       IN  /\ calls' = <<[op |-> "query", collection |-> "news",
                          filter |-> f, limit |-> limit, ok |-> ok /\ db # None]>>
           /\ IF db # None /\ ok
                 /\ \A i \in 1..Len(results) : NewsResponseValid(results[i])
              THEN response' = [status |-> 200, body |-> results]
              ELSE response' = [status |-> 500, body |-> "Internal Server Error"]
    /\ UNCHANGED <<db, env, store>>

\* variant of list_news: the default limit is passed to the gateway
list_news_default_limit(limit, sentiment, ticker, ok) ==
    /\ request' = [op |-> "list", limit |-> limit, sentiment |-> sentiment,
                   ticker |-> ticker]
    /\ IF db = None
       THEN /\ response' = [status |-> 500, body |-> "Database not available"]
            /\ calls' = <<>>
       ELSE LET f == Filter(sentiment, ticker)
                items == get_documents(store, "news", f, DefaultLimit)
                results == IF items = <<>> THEN <<>>
                           ELSE [i \in 1..Len(items) |-> NewsResponse(items[i])]
            IN  /\ calls' = <<[op |-> "query", collection |-> "news",
                               filter |-> f, limit |-> DefaultLimit, ok |-> ok]>>
                /\ IF ok /\ \A i \in 1..Len(results) : NewsResponseValid(results[i])
                   THEN response' = [status |-> 200, body |-> results]
                   ELSE response' = [status |-> 500, body |-> "Internal Server Error"]
    /\ UNCHANGED <<db, env, store>>

list_news(limit, sentiment, ticker, ok) ==
    /\ request' = [op |-> "list", limit |-> limit, sentiment |-> sentiment,
                   ticker |-> ticker]
    /\ IF db = None
       THEN /\ response' = [status |-> 500, body |-> "Database not available"]
            /\ calls' = <<>>
       ELSE LET f == Filter(sentiment, ticker)
                items == get_documents(store, "news", f, limit)
                results == IF items = <<>> THEN <<>>
                           ELSE [i \in 1..Len(items) |-> NewsResponse(items[i])]
            IN  /\ calls' = <<[op |-> "query", collection |-> "news",
                               filter |-> f, limit |-> limit, ok |-> ok]>>
                /\ IF ok /\ \A i \in 1..Len(results) : NewsResponseValid(results[i])
                   THEN response' = [status |-> 200, body |-> results]
                   ELSE response' = [status |-> 500, body |-> "Internal Server Error"]
    /\ UNCHANGED <<db, env, store>>

\* variant of ingest_article: the body is an unvalidated dict
ingest_article_unvalidated(body, ok) ==
    /\ (db # None /\ ok) => Len(store["news"]) < MaxDocs
    /\ request' = [op |-> "ingest", body |-> body]
    /\ IF db = None
       THEN /\ response' = [status |-> 500, body |-> "Database not available"]
            /\ calls' = <<>>
            /\ UNCHANGED store
       ELSE LET doc == NewsArticle([url          |-> Get(body, "url", None),
                                    source       |-> Get(body, "source", None),
                                    title        |-> Get(body, "title", None),
                                    content      |-> Get(body, "content", None),
                                    published_at |-> Get(body, "published_at", None),
                                    ticker       |-> Get(body, "ticker", None)])
            IN  /\ calls' = <<[op |-> "insert", collection |-> "news", doc |-> doc,
                               ok |-> ok]>>
                /\ IF ok
                   THEN /\ store' = create_document(store, "news", doc)
                        /\ response' =
                              [status |-> 200,
                               body |-> [id |-> create_document_result(store, "news"),
                                         status |-> "ok"]]
                   ELSE /\ response' = [status |-> 500, body |-> "Internal Server Error"]
                        /\ UNCHANGED store
    /\ UNCHANGED <<db, env>>

\* variant of ingest_article: no "db is None" check; the gateway raises instead
ingest_article_unchecked(body, ok) ==
    /\ (RawArticleValid(body) /\ db # None /\ ok) => Len(store["news"]) < MaxDocs
    /\ request' = [op |-> "ingest", body |-> body]
    /\ IF ~RawArticleValid(body)
       THEN /\ response' = [status |-> 422, body |-> "validation error"]
            /\ calls' = <<>>
            /\ UNCHANGED store
       ELSE LET doc == NewsArticle(RawArticle(body))
            IN  /\ calls' = <<[op |-> "insert", collection |-> "news", doc |-> doc,
                               ok |-> ok /\ db # None]>>
                /\ IF db # None /\ ok
                   THEN /\ store' = create_document(store, "news", doc)
                        /\ response' =
                              [status |-> 200,
                               body |-> [id |-> create_document_result(store, "news"),
                                         status |-> "ok"]]
                   ELSE /\ response' = [status |-> 500, body |-> "Internal Server Error"]
                        /\ UNCHANGED store
    /\ UNCHANGED <<db, env>>

\* variant of ingest_article: the document is also written to a second collection
ingest_article_two_writes(body, ok) ==
    /\ (RawArticleValid(body) /\ db # None /\ ok) => Len(store["news"]) < MaxDocs
    /\ request' = [op |-> "ingest", body |-> body]
    /\ IF ~RawArticleValid(body)
       THEN /\ response' = [status |-> 422, body |-> "validation error"]
            /\ calls' = <<>>
            /\ UNCHANGED store
       ELSE IF db = None
       THEN /\ response' = [status |-> 500, body |-> "Database not available"]
            /\ calls' = <<>>
            /\ UNCHANGED store
       ELSE LET doc == NewsArticle(RawArticle(body))
            IN  /\ calls' = <<[op |-> "insert", collection |-> "news", doc |-> doc,
                               ok |-> ok],
                              [op |-> "insert", collection |-> "archive", doc |-> doc,
                               ok |-> ok]>>
                /\ IF ok
                   THEN /\ store' = create_document(
                                        create_document(store, "news", doc),
                                        "archive", doc)
                        /\ response' =
                              [status |-> 200,
                               body |-> [id |-> create_document_result(store, "news"),
                                         status |-> "ok"]]
                   ELSE /\ response' = [status |-> 500, body |-> "Internal Server Error"]
                        /\ UNCHANGED store
    /\ UNCHANGED <<db, env>>

ingest_article(body, ok) ==
    /\ (RawArticleValid(body) /\ db # None /\ ok) => Len(store["news"]) < MaxDocs
    /\ request' = [op |-> "ingest", body |-> body]
    /\ IF ~RawArticleValid(body)
       THEN /\ response' = [status |-> 422, body |-> "validation error"]
            /\ calls' = <<>>
            /\ UNCHANGED store
       ELSE IF db = None
       THEN /\ response' = [status |-> 500, body |-> "Database not available"]
            /\ calls' = <<>>
            /\ UNCHANGED store
       ELSE LET doc == NewsArticle(RawArticle(body))
            IN  /\ calls' = <<[op |-> "insert", collection |-> "news", doc |-> doc,
                               ok |-> ok]>>
                /\ IF ok
                   THEN /\ store' = create_document(store, "news", doc)
                        /\ response' =
                              [status |-> 200,
                               body |-> [id |-> create_document_result(store, "news"),
                                         status |-> "ok"]]
                   ELSE /\ response' = [status |-> 500, body |-> "Internal Server Error"]
                        /\ UNCHANGED store
    /\ UNCHANGED <<db, env>>

Next ==
    \/ read_root
    \/ \E listing \in Listings : test_database(listing)
    \/ \E limit \in Limits, p \in Params, ok \in BOOLEAN :
          list_news(limit, p[1], p[2], ok)
    \/ \E body \in Bodies, ok \in BOOLEAN : ingest_article(body, ok)

Spec == Init /\ [][Next]_vars

SpecStore == InitStore /\ [][Next]_vars

-----------------------------------------------------------------------------
(* Properties *)

news == store["news"]

\* C1: every document of the "news" collection has sentiment "neutral",
\* a non-empty summary_ko of at most 500 characters, and empty tags.
C1_StoredFieldsNormalised ==
    \A i \in 1..Len(news) :
        /\ news[i]["sentiment"] = "neutral"
        /\ news[i]["summary_ko"] # ""
        /\ news[i]["summary_ko"] # None
        /\ Len(news[i]["summary_ko"]) <= 500
        /\ news[i]["tags"] = <<>>

\* C1 happens: after requests of every kind the collection holds a truncated
\* summary and a placeholder summary.
C1_Witness ==
    /\ Len(news) = 2
    /\ \E i \in 1..2 : Len(news[i]["summary_ko"]) = 500
    /\ \E i \in 1..2 : news[i]["summary_ko"] = Placeholder

\* C2 as stated: after an accepted ingest the stored summary_ko is the first
\* 500 characters of the stripped content, or "no summary available" when the
\* content is absent, empty or whitespace-only.
C2_PlaceholderAsStated ==
    (request.op = "ingest" /\ response.status = 200) =>
        LET c   == Get(request.body, "content", None)
            s   == news[Len(news)]["summary_ko"]
            ink == IF c = None THEN {}
                   ELSE {i \in 1..Len(c) : SubSeq(c, i, i) \notin Whitespace}
        IN  IF ink = {}
            THEN s = "no summary available"
            ELSE LET lo == CHOOSE i \in ink : \A j \in ink : i <= j
                     hi == CHOOSE i \in ink : \A j \in ink : j <= i
                 IN  s = SubSeq(c, lo, IF hi - lo + 1 > 500 THEN lo + 499 ELSE hi)

\* C2 amended: the same, with the placeholder the code stores, the Korean
\* string "요약 없음".
C2_SummaryFromContent ==
    (request.op = "ingest" /\ response.status = 200) =>
        LET c   == Get(request.body, "content", None)
            s   == news[Len(news)]["summary_ko"]
            ink == IF c = None THEN {}
                   ELSE {i \in 1..Len(c) : SubSeq(c, i, i) \notin Whitespace}
        IN  IF ink = {}
            THEN s = "\\uC694\\uC57D \\uC5C6\\uC74C"
            ELSE LET lo == CHOOSE i \in ink : \A j \in ink : i <= j
                     hi == CHOOSE i \in ink : \A j \in ink : j <= i
                 IN  s = SubSeq(c, lo, IF hi - lo + 1 > 500 THEN lo + 499 ELSE hi)

\* C2 happens: a whitespace-only content was stored as the placeholder and a
\* padded content of more than 500 characters has just been ingested.
C2_Witness ==
    /\ request.op = "ingest"
    /\ response.status = 200
    /\ "content" \in DOMAIN request.body
    /\ request.body["content"] = LongContent
    /\ Len(news) = 2
    /\ news[1]["summary_ko"] = Placeholder

\* C3 as stated: a successful list request without sentiment and ticker
\* returns the first limit documents; with a supplied sentiment (ticker)
\* every returned item carries it; the filter handed to the gateway has
\* exactly one entry per parameter that is not None.
C3_FilterPerSuppliedParameter ==
    (request.op = "list" /\ calls # <<>>) =>
        LET f == calls[1].filter IN
        /\ DOMAIN f = {k \in {"sentiment", "ticker"} : request[k] # None}
        /\ \A k \in DOMAIN f : f[k] = request[k]
        /\ response.status = 200 =>
            /\ (request.sentiment = None /\ request.ticker = None) =>
                  /\ Len(response.body) =
                        IF request.limit < 0 THEN 0 ELSE Min(request.limit, Len(news))
                  /\ \A i \in 1..Len(response.body) :
                        response.body[i].id = ObjectIdStr(news[i]["_id"])
            /\ request.sentiment # None =>
                  \A i \in 1..Len(response.body) :
                      response.body[i].sentiment = request.sentiment
            /\ request.ticker # None =>
                  \A i \in 1..Len(response.body) :
                      response.body[i].ticker = request.ticker

\* C3 amended: the same with "supplied" read as "supplied and non-empty": an
\* empty sentiment or ticker adds no filter entry and filters nothing.
C3_FilterPerNonEmptyParameter ==
    (request.op = "list" /\ calls # <<>>) =>
        LET f == calls[1].filter
            given(k) == request[k] # None /\ request[k] # ""
        IN
        /\ DOMAIN f = {k \in {"sentiment", "ticker"} : given(k)}
        /\ \A k \in DOMAIN f : f[k] = request[k]
        /\ response.status = 200 =>
            /\ (~given("sentiment") /\ ~given("ticker")) =>
                  /\ Len(response.body) =
                        IF request.limit < 0 THEN 0 ELSE Min(request.limit, Len(news))
                  /\ \A i \in 1..Len(response.body) :
                        response.body[i].id = ObjectIdStr(news[i]["_id"])
            /\ given("sentiment") =>
                  \A i \in 1..Len(response.body) :
                      response.body[i].sentiment = request.sentiment
            /\ given("ticker") =>
                  \A i \in 1..Len(response.body) :
                      response.body[i].ticker = request.ticker

\* C3 happens: a sentiment filter kept one of two stored documents.
C3_Witness ==
    /\ request.op = "list"
    /\ response.status = 200
    /\ request.sentiment = "positive"
    /\ request.limit = DefaultLimit
    /\ Len(news) = 2
    /\ Len(response.body) = 1

\* C4: an ingest request whose body lacks url is rejected with a validation
\* failure, makes no storage call and leaves the store unchanged.
C4_MissingUrlRejected ==
    [][(request'.op = "ingest" /\ "url" \notin DOMAIN request'.body) =>
          /\ response'.status = 422
          /\ calls' = <<>>
          /\ store' = store]_vars

\* C4 happens: with the storage connection present a body without url was
\* rejected.
C4_Witness ==
    /\ db # None
    /\ request.op = "ingest"
    /\ "url" \notin DOMAIN request.body
    /\ "title" \in DOMAIN request.body
    /\ response.status = 422

\* C5: with db None, list_news and ingest_article answer 500 "Database not
\* available"; no request makes a storage call or changes the store.
C5_NoConnectionFailsFast ==
    [][db = None =>
          /\ calls' = <<>>
          /\ store' = store
          /\ (\/ request'.op = "list"
              \/ request'.op = "ingest" /\ RawArticleValid(request'.body)) =>
                  /\ response'.status = 500
                  /\ response'.body = "Database not available"]_vars

\* C5 happens: a valid ingest was refused because db is None.
C5_Witness ==
    /\ db = None
    /\ request.op = "ingest"
    /\ RawArticleValid(request.body)
    /\ response.status = 500

\* C6: a successful ingest appends exactly one document to "news"; every
\* other request leaves "news" as it is; existing documents are never
\* changed or removed; no other collection is written.
C6_OnlyIngestAppends ==
    [][/\ IF request'.op = "ingest" /\ response'.status = 200
          THEN Len(store'["news"]) = Len(store["news"]) + 1
          ELSE store'["news"] = store["news"]
       /\ Len(store'["news"]) >= Len(store["news"])
       /\ SubSeq(store'["news"], 1, Len(store["news"])) = store["news"]
       /\ \A c \in Collections \ {"news"} : store'[c] = store[c]]_vars

\* C6 happens: an ingest succeeded on a collection that already held a
\* document.
C6_Witness ==
    /\ request.op = "ingest"
    /\ response.status = 200
    /\ Len(news) = 2

\* C7: listing without filters right after a successful ingest returns an
\* item with the id ingest returned, the title as title_ko and the ticker
\* and published_at of the payload; from an empty collection the payload
\* url "http://x", source "S", title "T", content "hello" lists as exactly
\* source "S", title_ko "T", summary_ko "hello", sentiment "neutral", no
\* ticker.
C7_IngestThenList ==
    [][(/\ request.op = "ingest" /\ response.status = 200
        /\ request'.op = "list" /\ response'.status = 200
        /\ request'.sentiment = None /\ request'.ticker = None
        /\ request'.limit >= Len(store["news"])) =>
          /\ \E i \in 1..Len(response'.body) :
                /\ response'.body[i].id = response.body.id
                /\ response'.body[i].title_ko = request.body["title"]
                /\ response'.body[i].ticker = Get(request.body, "ticker", None)
                /\ response'.body[i].published_at =
                      Get(request.body, "published_at", None)
          /\ (/\ Len(store["news"]) = 1
              /\ request.body = [url |-> "http://x", source |-> "S",
                                 title |-> "T", content |-> "hello"]) =>
                response'.body =
                    <<[id |-> response.body.id, source |-> "S", title_ko |-> "T",
                       summary_ko |-> "hello", sentiment |-> "neutral",
                       published_at |-> None, tags |-> <<>>, ticker |-> None]>>]_vars

\* C7 happens: the list after two ingests shows the "hello" article and the
\* article with ticker and published_at.
C7_Witness ==
    /\ request.op = "list"
    /\ response.status = 200
    /\ request.sentiment = None
    /\ request.ticker = None
    /\ Len(response.body) = 2
    /\ response.body[1].summary_ko = "hello"
    /\ response.body[1].ticker = None
    /\ response.body[2].ticker = "AAPL"
    /\ response.body[2].published_at = "2024-05-01T09:00:00"

\* C8 as stated: a successful list request never returns more than limit
\* items, and none when limit is 0.
C8_AtMostLimitItems ==
    (request.op = "list" /\ response.status = 200) =>
        /\ Len(response.body) <= request.limit
        /\ request.limit = 0 => response.body = <<>>

\* C8 amended: for a limit that is not negative, a successful list request
\* never returns more than limit items, and none when limit is 0.
C8_AtMostLimitItemsNonNegative ==
    (request.op = "list" /\ response.status = 200 /\ request.limit >= 0) =>
        /\ Len(response.body) <= request.limit
        /\ request.limit = 0 => response.body = <<>>

\* C8 happens: an unfiltered list with limit 0 over a non-empty collection
\* returned nothing.
C8_Witness ==
    /\ request.op = "list"
    /\ response.status = 200
    /\ request.limit = 0
    /\ request.sentiment = None
    /\ request.ticker = None
    /\ Len(news) = 2
    /\ response.body = <<>>

\* C9 as stated: when the query succeeds the mapping fails for no document;
\* every item copies the stored fields, title_ko falls back to title_en and
\* tags to the empty sequence, and tags is never absent.
C9_MappingTotal ==
    (request.op = "list" /\ calls # <<>> /\ calls[1].ok) =>
        LET items == get_documents(store, "news", calls[1].filter, calls[1].limit)
        IN  /\ response.status = 200
            /\ Len(response.body) = Len(items)
            /\ \A i \in 1..Len(items) :
                  LET it == items[i]
                      r  == response.body[i]
                  IN  /\ r.id = ObjectIdStr(it["_id"])
                      /\ "title_ko" \in DOMAIN it => r.title_ko = it["title_ko"]
                      /\ ("title_ko" \notin DOMAIN it /\ "title_en" \in DOMAIN it) =>
                            r.title_ko = it["title_en"]
                      /\ "tags" \in DOMAIN it => r.tags = it["tags"]
                      /\ "tags" \notin DOMAIN it => r.tags = <<>>
                      /\ r.tags # None
                      /\ \A k \in {"source", "summary_ko", "sentiment",
                                    "published_at", "ticker"} \cap DOMAIN it :
                            r[k] = it[k]

\* C9 amended: the same for the queries all of whose documents store no null
\* as source, summary_ko, sentiment, tags or title (title_ko, or title_en
\* when title_ko is absent).
C9_MappingOfNonNullDocuments ==
    (request.op = "list" /\ calls # <<>> /\ calls[1].ok) =>
        LET items == get_documents(store, "news", calls[1].filter, calls[1].limit)
            nonNull(it) ==
                /\ \A k \in {"source", "summary_ko", "sentiment", "tags"}
                               \cap DOMAIN it : it[k] # None
                /\ "title_ko" \in DOMAIN it => it["title_ko"] # None
                /\ ("title_ko" \notin DOMAIN it /\ "title_en" \in DOMAIN it) =>
                      it["title_en"] # None
        IN  (\A i \in 1..Len(items) : nonNull(items[i])) =>
            /\ response.status = 200
            /\ Len(response.body) = Len(items)
            /\ \A i \in 1..Len(items) :
                  LET it == items[i]
                      r  == response.body[i]
                  IN  /\ r.id = ObjectIdStr(it["_id"])
                      /\ "title_ko" \in DOMAIN it => r.title_ko = it["title_ko"]
                      /\ ("title_ko" \notin DOMAIN it /\ "title_en" \in DOMAIN it) =>
                            r.title_ko = it["title_en"]
                      /\ "tags" \in DOMAIN it => r.tags = it["tags"]
                      /\ "tags" \notin DOMAIN it => r.tags = <<>>
                      /\ r.tags # None
                      /\ \A k \in {"source", "summary_ko", "sentiment",
                                    "published_at", "ticker"} \cap DOMAIN it :
                            r[k] = it[k]

\* C9 happens: a listed document without title_ko and tags shows its
\* title_en and empty tags.
C9_Witness ==
    /\ request.op = "list"
    /\ response.status = 200
    /\ \E i \in 1..Len(response.body) :
          /\ i <= Len(news)
          /\ response.body[i].id = ObjectIdStr(news[i]["_id"])
          /\ "title_ko" \notin DOMAIN news[i]
          /\ "tags" \notin DOMAIN news[i]
          /\ response.body[i].title_ko = "E"
          /\ response.body[i].tags = <<>>

\* C10: diagnostics always answers 200; with db None it reports the database
\* as not initialized, "Not Connected" and no collections; when the listing
\* raises, the first 80 characters of the error are folded into the database
\* field; otherwise it returns the first 10 collection names at most.
C10_DiagnosticsNeverRaises ==
    request.op = "test" =>
        LET b == response.body
            l == request.listing
            prefix == "\\u26a0\\ufe0f  Connected but Error: "
        IN  /\ response.status = 200
            /\ db = None =>
                  /\ b.database = "\\u26a0\\ufe0f  Available but not initialized"
                  /\ b.connection_status = "Not Connected"
                  /\ b.collections = <<>>
            /\ (db # None /\ ~l.ok) =>
                  /\ b.connection_status = "Connected"
                  /\ Len(b.database) <= Len(prefix) + 80
                  /\ b.database =
                        prefix \o SubSeq(l.e, 1, Len(b.database) - Len(prefix))
                  /\ Len(l.e) <= 80 => b.database = prefix \o l.e
                  /\ b.collections = <<>>
            /\ (db # None /\ l.ok) =>
                  /\ b.connection_status = "Connected"
                  /\ b.database = "\\u2705 Connected & Working"
                  /\ Len(b.collections) <= 10
                  /\ Len(l.names) >= 10 => Len(b.collections) = 10
                  /\ b.collections = SubSeq(l.names, 1, Len(b.collections))

\* C10 happens: a working connection listed eleven collections and ten were
\* returned.
C10_Witness ==
    /\ request.op = "test"
    /\ db # None
    /\ request.listing.ok
    /\ Len(request.listing.names) = 11
    /\ Len(response.body.collections) = 10

====
